---- MODULE Spec2Model ----
(***************************************************************************)
(* Model of scripts/prepare_wudao.py: the orchestrator `prepare`, which    *)
(* splits the file list with np.array_split and starts one process per     *)
(* group, and the worker `prepare_full`, which drives the documents of its *)
(* files through a PackedDatasetBuilder.  The builder itself               *)
(* (lit_gpt/packed_dataset.py) is modelled from its specification.         *)
(* Model of lit_gpt/config.py: the preset table name_to_config and the     *)
(* construction of a Config from a preset by Config.from_name.             *)
(***************************************************************************)
EXTENDS Integers, Sequences, FiniteSets, TLC

(* ---------------------------- bounds ----------------------------------- *)
MaxFiles == 3        \* longest file list the orchestrator is given
MaxProcs == 3        \* largest cpu_count()
MaxChunk == 4        \* largest chunk_size
MaxSplitLen == 12    \* longest list array_split is tabulated on
MaxPid == 12         \* largest process_id whose prefix is tabulated
MaxIdx == 12         \* largest shard index whose filename is tabulated
MaxWriteFaults == 1  \* most processes a run loses to a failing shard write

(* ---------------------------- constants -------------------------------- *)
SepToken == 1        \* tokenizer.bos_id
IndexDigits == 10    \* width of the zero-padded shard index in a filename

Procs == 0..(MaxProcs - 1)

VARIABLES
  filenames,          \* prepare: the globbed, percentage-sliced file list
  num_processes,      \* prepare: cpu_count()
  chunk_size,         \* prepare: chunk_size argument
  corpus,             \* file id -> the rows json.load returns for it
  vocab_size,         \* tokenizer.vocab_size
  pc,                 \* prepare: "split" | "spawn" | "join" | "done"
  chunked_filenames,  \* prepare: result of np.array_split
  processes,          \* prepare: the list of started Process objects (ids)
  joined,             \* prepare: number of processes already joined
  result,             \* prepare: "none" until it returns, then its outcome
  status,             \* per process: "unborn" | "init" | "running" | "done" | "failed"
  error,              \* per process: the exception that ended it, or "none"
  fidx,               \* per process: index in its group of the current file
  ridx,               \* per process: next row of the open file, 0 = not open
  builder,            \* per process: the PackedDatasetBuilder state
  dirCreated,         \* whether destination_path exists
  disk,               \* the files of destination_path: records [name, body]
  config_call         \* the call of Config.from_name: its position and values

vars == <<filenames, num_processes, chunk_size, corpus, vocab_size, pc,
          chunked_filenames, processes, joined, result, status, error, fidx,
          ridx, builder, dirCreated, disk, config_call>>

inputs == <<filenames, num_processes, chunk_size, corpus, vocab_size>>

(* ---------------------------- text helpers ----------------------------- *)
DigitChar(d) == <<"0", "1", "2", "3", "4", "5", "6", "7", "8", "9">>[d + 1]

RECURSIVE Str(_)
\* str(n) for n >= 0: the decimal digits, most significant first
Str(n) == IF n < 10 THEN <<DigitChar(n)>>
          ELSE Str(n \div 10) \o <<DigitChar(n % 10)>>

\* format(n, "0{w}d"): left-pad the digits with zeros up to width w
ZeroPad(s, w) ==
  IF Len(s) >= w THEN s ELSE [k \in 1..(w - Len(s)) |-> "0"] \o s

split == <<"t", "r", "a", "i", "n">>

BuilderPrefixNoId(sp, process_id) == sp \o <<"_", "w", "u", "d", "a", "o">>

\* f"{split}_wudao_{process_id}"
BuilderPrefix(sp, process_id) ==
  sp \o <<"_", "w", "u", "d", "a", "o", "_">> \o Str(process_id)

\* the shard file name built from the builder's prefix and its shard_index
ShardFilename(prefix, shard_index) ==
  prefix \o <<"_">> \o ZeroPad(Str(shard_index), IndexDigits)
         \o <<".", "b", "i", "n">>

(* ---------------------------- np.array_split --------------------------- *)
\* first div_point (0-based start) of section s (1-based) of n items in k
SectionStart(n, k, s) ==
  LET each == n \div k
      extras == n % k
  IN  IF s - 1 <= extras THEN (s - 1) * (each + 1)
      ELSE extras * (each + 1) + (s - 1 - extras) * each

array_split_drop(ary, k) ==
  [s \in 1..k |->
     SubSeq(ary, ((s - 1) * (Len(ary) \div k)) + 1, s * (Len(ary) \div k))]

array_split(ary, k) ==
  [s \in 1..k |->
     SubSeq(ary, SectionStart(Len(ary), k, s) + 1,
                 SectionStart(Len(ary), k, s + 1))]

(* ---------------------------- the corpus ------------------------------- *)
\* the row lists a file can hold, each row already tokenized by
\* tokenizer.encode
Documents ==
  << << <<5, 6, 7>>, <<8>>, <<9, 10>> >>,
     << <<>> >>,
     << <<2, 3, 4, 5, 6, 7, 8, 9, 10>> >>,
     << >> >>

\* the corpus of n files that starts s places into Documents
CorpusOf(n, s) == [f \in 1..n |-> Documents[((f + s) % Len(Documents)) + 1]]

CorpusChoices(n) == { CorpusOf(n, s) : s \in 0..(Len(Documents) - 1) }

\* the vocabulary sizes of the tokenizers the runs are given
VocabSizes == <<32000, 65499, 65500, 128256>>

(* ---------------------------- the builder ------------------------------ *)
\* the builder slot of a process that has not constructed its builder
NoBuilder ==
  [buffer |-> <<>>, shard_index |-> 0, total_tokens_written |-> 0,
   dtype_width |-> 0]

\* dtype="auto": 2 bytes when vocab_size < 65500, else 4
DtypeWidth(vocab) == IF vocab < 65500 THEN 2 ELSE 4

\* the state of a freshly constructed builder
NewBuilder(vocab) ==
  [buffer |-> <<>>, shard_index |-> 0, total_tokens_written |-> 0,
   dtype_width |-> DtypeWidth(vocab)]

WriteFile(d, name, body) ==
  {f \in d : f.name # name} \cup {[name |-> name, body |-> body]}

RECURSIVE FlushLoop(_, _, _, _, _, _)
\* the flush loop after n shards: while the rest of the buffer holds a full
\* chunk (and fewer than stop shards are written, stop = -1: no limit),
\* write the next chunk tokens as shard shard_index + n; at the end the
\* written tokens leave the buffer and the counters advance by n shards
FlushLoop(b, d, prefix, chunk, n, stop) ==
  IF chunk > 0 /\ n # stop /\ Len(b.buffer) - n * chunk >= chunk
  THEN FlushLoop(b,
                 WriteFile(d, ShardFilename(prefix, b.shard_index + n),
                           SubSeq(b.buffer, n * chunk + 1, (n + 1) * chunk)),
                 prefix, chunk, n + 1, stop)
  ELSE [b |-> [b EXCEPT !.buffer = SubSeq(b.buffer, n * chunk + 1,
                                          Len(b.buffer)),
                        !.shard_index = b.shard_index + n,
                        !.total_tokens_written =
                           b.total_tokens_written + n * chunk],
        disk |-> d]

\* while the buffer holds a full chunk: write its first chunk tokens as the
\* next shard and advance shard_index
FlushChunks(b, d, prefix, chunk) == FlushLoop(b, d, prefix, chunk, 0, -1)

FlushOnce(b, d, prefix, chunk) ==
  IF Len(b.buffer) >= chunk
  THEN [b |-> [b EXCEPT !.buffer = SubSeq(b.buffer, chunk + 1, Len(b.buffer)),
                        !.shard_index = b.shard_index + 1,
                        !.total_tokens_written = b.total_tokens_written + chunk],
        disk |-> WriteFile(d, ShardFilename(prefix, b.shard_index),
                           SubSeq(b.buffer, 1, chunk))]
  ELSE [b |-> b, disk |-> d]

add_array_flush_once(b, d, tokens, prefix, chunk) ==
  FlushOnce([b EXCEPT !.buffer = b.buffer \o <<SepToken>> \o tokens],
            d, prefix, chunk)

add_array_sep_last(b, d, tokens, prefix, chunk) ==
  FlushChunks([b EXCEPT !.buffer = b.buffer \o tokens \o <<SepToken>>],
              d, prefix, chunk)

\* append: push the separator, then the tokens, then flush every full chunk
add_array(b, d, tokens, prefix, chunk) ==
  FlushChunks([b EXCEPT !.buffer = b.buffer \o <<SepToken>> \o tokens],
              d, prefix, chunk)

\* write_reminder: write the buffer, padded with the separator, as a shard
WriteReminder(b, d, prefix, chunk) ==
  [b |-> [b EXCEPT !.buffer = <<>>,
                   !.shard_index = b.shard_index + 1,
                   !.total_tokens_written = b.total_tokens_written + chunk],
   disk |-> WriteFile(d, ShardFilename(prefix, b.shard_index),
                      b.buffer \o [k \in 1..(chunk - Len(b.buffer)) |-> SepToken])]

FinalizeAsReminder(b) ==
  [b EXCEPT !.buffer = <<>>, !.shard_index = b.shard_index + 1]

\* finalize's return value: the counters shard_index, total_tokens_written
Summary(b) == <<b.shard_index, b.total_tokens_written>>

\* finalize: the remaining buffer is discarded
Finalize(b) == [b EXCEPT !.buffer = <<>>]

(* ---------------------------- Config ----------------------------------- *)
None == -1           \* the value of an Optional[int] field that is not set

\* the fields of the dataclass with their defaults; floats are kept as
\* their text
ConfigDefaults ==
  [ org |-> "Lightning-AI", name |-> "lit-GPT", block_size |-> 4096,
    vocab_size |-> 50254, padding_multiple |-> 512,
    padded_vocab_size |-> None, n_layer |-> 16, n_head |-> 32,
    n_embd |-> 4096, rotary_percentage |-> "0.25",
    parallel_residual |-> TRUE, bias |-> TRUE, n_query_groups |-> None,
    shared_attention_norm |-> FALSE, _norm_class |-> "LayerNorm",
    norm_eps |-> "1e-05", _mlp_class |-> "GptNeoxMLP",
    intermediate_size |-> None, condense_ratio |-> 1 ]

\* the keyword arguments Config.__init__ accepts
ConfigFields == DOMAIN ConfigDefaults

\* the smallest multiple of k that is at least n
find_multiple(n, k) == IF n % k = 0 THEN n ELSE n + k - (n % k)

\* the list `configs` once the module is loaded, the copies made by the
\* loops included, in list order
configs ==
  <<
  [ org |-> "stabilityai", name |-> "stablelm-base-alpha-3b",
     padding_multiple |-> 512 ],
  [ org |-> "stabilityai", name |-> "stablelm-base-alpha-7b", n_head |-> 48,
     n_embd |-> 6144, padding_multiple |-> 256 ],
  [ org |-> "stabilityai", name |-> "stablelm-tuned-alpha-3b",
     n_head |-> 32, padding_multiple |-> 512 ],
  [ org |-> "stabilityai", name |-> "stablelm-tuned-alpha-7b",
     n_head |-> 48, n_embd |-> 6144, padding_multiple |-> 256 ],
  [ name |-> "stablecode-completion-alpha-3b",
     hf_config |-> [org |-> "stabilityai", name |-> "stablecode-completion-alpha-3b"],
     block_size |-> 16384, vocab_size |-> 49152, n_layer |-> 32,
     n_embd |-> 2560 ],
  [ name |-> "stablecode-completion-alpha-3b-4k",
     hf_config |-> [org |-> "stabilityai", name |-> "stablecode-completion-alpha-3b-4k"],
     vocab_size |-> 49152, n_layer |-> 32, n_embd |-> 2560 ],
  [ name |-> "stablecode-instruct-alpha-3b",
     hf_config |-> [org |-> "stabilityai", name |-> "stablecode-instruct-alpha-3b"],
     vocab_size |-> 49152, n_layer |-> 32, n_embd |-> 2560 ],
  [ org |-> "EleutherAI", name |-> "pythia-14m", block_size |-> 512,
     n_layer |-> 6, n_embd |-> 128, n_head |-> 4, padding_multiple |-> 128 ],
  [ org |-> "EleutherAI", name |-> "pythia-31m", block_size |-> 1024,
     n_layer |-> 6, n_embd |-> 256, n_head |-> 8, padding_multiple |-> 128 ],
  [ org |-> "EleutherAI", name |-> "pythia-70m", block_size |-> 2048,
     n_layer |-> 6, n_embd |-> 512, n_head |-> 8, padding_multiple |-> 128 ],
  [ org |-> "EleutherAI", name |-> "pythia-160m", block_size |-> 2048,
     n_layer |-> 12, n_embd |-> 768, n_head |-> 12, padding_multiple |-> 128 ],
  [ org |-> "EleutherAI", name |-> "pythia-410m", block_size |-> 2048,
     n_layer |-> 24, n_embd |-> 1024, n_head |-> 16,
     padding_multiple |-> 128 ],
  [ org |-> "EleutherAI", name |-> "pythia-1b", block_size |-> 2048,
     n_layer |-> 16, n_embd |-> 2048, n_head |-> 8, padding_multiple |-> 128 ],
  [ org |-> "EleutherAI", name |-> "pythia-1.4b", block_size |-> 2048,
     n_layer |-> 24, n_embd |-> 2048, n_head |-> 16,
     padding_multiple |-> 128 ],
  [ org |-> "EleutherAI", name |-> "pythia-2.8b", block_size |-> 2048,
     n_layer |-> 32, n_embd |-> 2560, n_head |-> 32,
     padding_multiple |-> 128 ],
  [ org |-> "EleutherAI", name |-> "pythia-6.9b", block_size |-> 2048,
     n_layer |-> 32, n_embd |-> 4096, n_head |-> 32,
     padding_multiple |-> 256 ],
  [ org |-> "EleutherAI", name |-> "pythia-12b", block_size |-> 2048,
     n_layer |-> 36, n_embd |-> 5120, n_head |-> 40,
     padding_multiple |-> 512 ],
  [ org |-> "EleutherAI", name |-> "pythia-14m-deduped", block_size |-> 512,
     n_layer |-> 6, n_embd |-> 128, n_head |-> 4, padding_multiple |-> 128 ],
  [ org |-> "EleutherAI", name |-> "pythia-31m-deduped",
     block_size |-> 1024, n_layer |-> 6, n_embd |-> 256, n_head |-> 8,
     padding_multiple |-> 128 ],
  [ org |-> "EleutherAI", name |-> "pythia-70m-deduped",
     block_size |-> 2048, n_layer |-> 6, n_embd |-> 512, n_head |-> 8,
     padding_multiple |-> 128 ],
  [ org |-> "EleutherAI", name |-> "pythia-160m-deduped",
     block_size |-> 2048, n_layer |-> 12, n_embd |-> 768, n_head |-> 12,
     padding_multiple |-> 128 ],
  [ org |-> "EleutherAI", name |-> "pythia-410m-deduped",
     block_size |-> 2048, n_layer |-> 24, n_embd |-> 1024, n_head |-> 16,
     padding_multiple |-> 128 ],
  [ org |-> "EleutherAI", name |-> "pythia-1b-deduped", block_size |-> 2048,
     n_layer |-> 16, n_embd |-> 2048, n_head |-> 8, padding_multiple |-> 128 ],
  [ org |-> "EleutherAI", name |-> "pythia-1.4b-deduped",
     block_size |-> 2048, n_layer |-> 24, n_embd |-> 2048, n_head |-> 16,
     padding_multiple |-> 128 ],
  [ org |-> "EleutherAI", name |-> "pythia-2.8b-deduped",
     block_size |-> 2048, n_layer |-> 32, n_embd |-> 2560, n_head |-> 32,
     padding_multiple |-> 128 ],
  [ org |-> "EleutherAI", name |-> "pythia-6.9b-deduped",
     block_size |-> 2048, n_layer |-> 32, n_embd |-> 4096, n_head |-> 32,
     padding_multiple |-> 256 ],
  [ org |-> "EleutherAI", name |-> "pythia-12b-deduped",
     block_size |-> 2048, n_layer |-> 36, n_embd |-> 5120, n_head |-> 40,
     padding_multiple |-> 512 ],
  [ org |-> "togethercomputer", name |-> "RedPajama-INCITE-Base-3B-v1",
     block_size |-> 2048, n_layer |-> 32, n_embd |-> 2560, n_head |-> 32,
     padding_multiple |-> 256, rotary_percentage |-> "1.0",
     parallel_residual |-> FALSE ],
  [ org |-> "togethercomputer", name |-> "RedPajama-INCITE-Chat-3B-v1",
     block_size |-> 2048, n_layer |-> 32, n_embd |-> 2560, n_head |-> 32,
     padding_multiple |-> 256, rotary_percentage |-> "1.0",
     parallel_residual |-> FALSE ],
  [ org |-> "togethercomputer", name |-> "RedPajama-INCITE-Instruct-3B-v1",
     block_size |-> 2048, n_layer |-> 32, n_embd |-> 2560, n_head |-> 32,
     padding_multiple |-> 256, rotary_percentage |-> "1.0",
     parallel_residual |-> FALSE ],
  [ org |-> "togethercomputer", name |-> "RedPajama-INCITE-7B-Base",
     block_size |-> 2048, n_layer |-> 32, n_embd |-> 4096, n_head |-> 32,
     padding_multiple |-> 256, rotary_percentage |-> "1.0",
     parallel_residual |-> FALSE ],
  [ org |-> "togethercomputer", name |-> "RedPajama-INCITE-7B-Chat",
     block_size |-> 2048, n_layer |-> 32, n_embd |-> 4096, n_head |-> 32,
     padding_multiple |-> 256, rotary_percentage |-> "1.0",
     parallel_residual |-> FALSE ],
  [ org |-> "togethercomputer", name |-> "RedPajama-INCITE-7B-Instruct",
     block_size |-> 2048, n_layer |-> 32, n_embd |-> 4096, n_head |-> 32,
     padding_multiple |-> 256, rotary_percentage |-> "1.0",
     parallel_residual |-> FALSE ],
  [ org |-> "togethercomputer", name |-> "RedPajama-INCITE-Base-7B-v0.1",
     block_size |-> 2048, n_layer |-> 32, n_embd |-> 4096, n_head |-> 32,
     padding_multiple |-> 256, rotary_percentage |-> "1.0",
     parallel_residual |-> FALSE ],
  [ org |-> "togethercomputer", name |-> "RedPajama-INCITE-Chat-7B-v0.1",
     block_size |-> 2048, n_layer |-> 32, n_embd |-> 4096, n_head |-> 32,
     padding_multiple |-> 256, rotary_percentage |-> "1.0",
     parallel_residual |-> FALSE ],
  [ org |-> "togethercomputer",
     name |-> "RedPajama-INCITE-Instruct-7B-v0.1", block_size |-> 2048,
     n_layer |-> 32, n_embd |-> 4096, n_head |-> 32,
     padding_multiple |-> 256, rotary_percentage |-> "1.0",
     parallel_residual |-> FALSE ],
  [ name |-> "LLaMA-2-7B-32K",
     hf_config |-> [org |-> "togethercomputer", name |-> "LLaMA-2-7B-32K"],
     vocab_size |-> 32000, padding_multiple |-> 64, n_layer |-> 32,
     rotary_percentage |-> "1.0", parallel_residual |-> FALSE,
     bias |-> FALSE, _norm_class |-> "RMSNorm", _mlp_class |-> "LLaMAMLP",
     intermediate_size |-> 11008, rope_condense_ratio |-> 8 ],
  [ org |-> "tiiuae", name |-> "falcon-7b", block_size |-> 2048,
     padded_vocab_size |-> 65024, n_layer |-> 32, n_head |-> 71,
     n_embd |-> 4544, rotary_percentage |-> "1.0",
     parallel_residual |-> TRUE, n_query_groups |-> 1, bias |-> FALSE,
     shared_attention_norm |-> TRUE ],
  [ org |-> "tiiuae", name |-> "falcon-7b-instruct", block_size |-> 2048,
     padded_vocab_size |-> 65024, n_layer |-> 32, n_head |-> 71,
     n_embd |-> 4544, rotary_percentage |-> "1.0",
     parallel_residual |-> TRUE, n_query_groups |-> 1, bias |-> FALSE,
     shared_attention_norm |-> TRUE ],
  [ org |-> "tiiuae", name |-> "falcon-40b", block_size |-> 2048,
     padded_vocab_size |-> 65024, n_layer |-> 60, n_head |-> 128,
     n_embd |-> 8192, rotary_percentage |-> "1.0",
     parallel_residual |-> TRUE, n_query_groups |-> 8, bias |-> FALSE ],
  [ org |-> "tiiuae", name |-> "falcon-40b-instruct", block_size |-> 2048,
     padded_vocab_size |-> 65024, n_layer |-> 60, n_head |-> 128,
     n_embd |-> 8192, rotary_percentage |-> "1.0",
     parallel_residual |-> TRUE, n_query_groups |-> 8, bias |-> FALSE ],
  [ org |-> "StatNLP-research", name |-> "tiny_LLaMA_1b",
     block_size |-> 2048, vocab_size |-> 32000, padding_multiple |-> 64,
     n_layer |-> 22, n_head |-> 32, n_embd |-> 2048,
     rotary_percentage |-> "1.0", parallel_residual |-> FALSE,
     bias |-> FALSE, _norm_class |-> "FusedRMSNorm", norm_eps |-> "1e-05",
     _mlp_class |-> "LLaMAMLP", intermediate_size |-> 5632,
     n_query_groups |-> 4 ],
  [ org |-> "StatNLP-research", name |-> "tiny_LLaMA_120M",
     block_size |-> 2048, vocab_size |-> 32000, padding_multiple |-> 64,
     n_layer |-> 12, n_head |-> 12, n_embd |-> 768,
     rotary_percentage |-> "1.0", parallel_residual |-> FALSE,
     bias |-> FALSE, _norm_class |-> "FusedRMSNorm", norm_eps |-> "1e-05",
     _mlp_class |-> "LLaMAMLP", intermediate_size |-> 2048,
     n_query_groups |-> 1 ],
  [ org |-> "StatNLP-research", name |-> "code_tiny_LLaMA_1b",
     block_size |-> 8192, vocab_size |-> 32000, padding_multiple |-> 64,
     n_layer |-> 22, n_head |-> 32, n_embd |-> 2048,
     rotary_percentage |-> "1.0", parallel_residual |-> FALSE,
     bias |-> FALSE, _norm_class |-> "FusedRMSNorm", norm_eps |-> "1e-05",
     _mlp_class |-> "LLaMAMLP", intermediate_size |-> 5632,
     n_query_groups |-> 4, condense_ratio |-> 4 ],
  [ org |-> "OpenCSG", name |-> "csg-wukong-1B", block_size |-> 2048,
     vocab_size |-> 32000, padding_multiple |-> 64, n_layer |-> 22,
     n_head |-> 32, n_embd |-> 2048, rotary_percentage |-> "1.0",
     parallel_residual |-> FALSE, bias |-> FALSE,
     _norm_class |-> "FusedRMSNorm", norm_eps |-> "1e-05",
     _mlp_class |-> "LLaMAMLP", intermediate_size |-> 5632,
     n_query_groups |-> 4 ],
  [ org |-> "OpenCSG", name |-> "csg-wukong-1B-deepseek",
     block_size |-> 2048, vocab_size |-> 102400, padding_multiple |-> 64,
     n_layer |-> 22, n_head |-> 32, n_embd |-> 2048,
     rotary_percentage |-> "1.0", parallel_residual |-> FALSE,
     bias |-> FALSE, _norm_class |-> "FusedRMSNorm", norm_eps |-> "1e-05",
     _mlp_class |-> "LLaMAMLP", intermediate_size |-> 5632,
     n_query_groups |-> 4 ],
  [ org |-> "OpenCSG", name |-> "csg-wukong-1B-qwew", block_size |-> 2048,
     vocab_size |-> 151936, padding_multiple |-> 64, n_layer |-> 22,
     n_head |-> 32, n_embd |-> 2048, rotary_percentage |-> "1.0",
     parallel_residual |-> FALSE, bias |-> FALSE,
     _norm_class |-> "FusedRMSNorm", norm_eps |-> "1e-05",
     _mlp_class |-> "LLaMAMLP", intermediate_size |-> 5632,
     n_query_groups |-> 4 ],
  [ org |-> "OpenCSG", name |-> "csg-wukong-1B-yi", block_size |-> 2048,
     vocab_size |-> 64000, padding_multiple |-> 64, n_layer |-> 22,
     n_head |-> 32, n_embd |-> 2048, rotary_percentage |-> "1.0",
     parallel_residual |-> FALSE, bias |-> FALSE,
     _norm_class |-> "FusedRMSNorm", norm_eps |-> "1e-05",
     _mlp_class |-> "LLaMAMLP", intermediate_size |-> 5632,
     n_query_groups |-> 4 ],
  [ org |-> "OpenCSG", name |-> "csg_tiny_120M", block_size |-> 2048,
     vocab_size |-> 32000, padding_multiple |-> 64, n_layer |-> 12,
     n_head |-> 12, n_embd |-> 768, rotary_percentage |-> "1.0",
     parallel_residual |-> FALSE, bias |-> FALSE,
     _norm_class |-> "FusedRMSNorm", norm_eps |-> "1e-05",
     _mlp_class |-> "LLaMAMLP", intermediate_size |-> 2048,
     n_query_groups |-> 1 ],
  [ org |-> "OpenCSG", name |-> "csg_tiny_120M-v2", block_size |-> 2048,
     vocab_size |-> 102400, padding_multiple |-> 64, n_layer |-> 12,
     n_head |-> 12, n_embd |-> 768, rotary_percentage |-> "1.0",
     parallel_residual |-> FALSE, bias |-> FALSE,
     _norm_class |-> "FusedRMSNorm", norm_eps |-> "1e-05",
     _mlp_class |-> "LLaMAMLP", intermediate_size |-> 2048,
     n_query_groups |-> 1 ],
  [ org |-> "OpenCSG", name |-> "csg_tiny_120M-v3", block_size |-> 2048,
     vocab_size |-> 151936, padding_multiple |-> 64, n_layer |-> 12,
     n_head |-> 12, n_embd |-> 768, rotary_percentage |-> "1.0",
     parallel_residual |-> FALSE, bias |-> FALSE,
     _norm_class |-> "FusedRMSNorm", norm_eps |-> "1e-05",
     _mlp_class |-> "LLaMAMLP", intermediate_size |-> 2048,
     n_query_groups |-> 1 ],
  [ org |-> "OpenCSG", name |-> "csg_tiny_120M-v4", block_size |-> 2048,
     vocab_size |-> 64000, padding_multiple |-> 64, n_layer |-> 12,
     n_head |-> 12, n_embd |-> 768, rotary_percentage |-> "1.0",
     parallel_residual |-> FALSE, bias |-> FALSE,
     _norm_class |-> "FusedRMSNorm", norm_eps |-> "1e-05",
     _mlp_class |-> "LLaMAMLP", intermediate_size |-> 2048,
     n_query_groups |-> 1 ],
  [ org |-> "OpenCSG", name |-> "csg_tiny_10M_llama", block_size |-> 2048,
     vocab_size |-> 32000, padding_multiple |-> 64, n_layer |-> 6,
     n_head |-> 4, n_embd |-> 128, rotary_percentage |-> "1.0",
     parallel_residual |-> FALSE, bias |-> FALSE,
     _norm_class |-> "FusedRMSNorm", norm_eps |-> "1e-05",
     _mlp_class |-> "LLaMAMLP", intermediate_size |-> 768,
     n_query_groups |-> 1 ],
  [ org |-> "OpenCSG", name |-> "csg_tiny_10M_yi", block_size |-> 2048,
     vocab_size |-> 64000, padding_multiple |-> 64, n_layer |-> 6,
     n_head |-> 4, n_embd |-> 72, rotary_percentage |-> "1.0",
     parallel_residual |-> FALSE, bias |-> FALSE,
     _norm_class |-> "FusedRMSNorm", norm_eps |-> "1e-05",
     _mlp_class |-> "LLaMAMLP", intermediate_size |-> 576,
     n_query_groups |-> 1 ],
  [ org |-> "OpenCSG", name |-> "csg_tiny_30M_yi", block_size |-> 2048,
     vocab_size |-> 64000, padding_multiple |-> 64, n_layer |-> 6,
     n_head |-> 4, n_embd |-> 200, rotary_percentage |-> "1.0",
     parallel_residual |-> FALSE, bias |-> FALSE,
     _norm_class |-> "FusedRMSNorm", norm_eps |-> "1e-05",
     _mlp_class |-> "LLaMAMLP", intermediate_size |-> 1048,
     n_query_groups |-> 1 ],
  [ org |-> "OpenCSG", name |-> "csg_tiny_70M_yi", block_size |-> 2048,
     vocab_size |-> 64000, padding_multiple |-> 64, n_layer |-> 8,
     n_head |-> 6, n_embd |-> 512, rotary_percentage |-> "1.0",
     parallel_residual |-> FALSE, bias |-> FALSE,
     _norm_class |-> "FusedRMSNorm", norm_eps |-> "1e-05",
     _mlp_class |-> "LLaMAMLP", intermediate_size |-> 1536,
     n_query_groups |-> 1 ],
  [ org |-> "OpenCSG", name |-> "csg_tiny_88M_yi", block_size |-> 2048,
     vocab_size |-> 64000, padding_multiple |-> 64, n_layer |-> 6,
     n_head |-> 4, n_embd |-> 512, rotary_percentage |-> "1.0",
     parallel_residual |-> FALSE, bias |-> FALSE,
     _norm_class |-> "FusedRMSNorm", norm_eps |-> "1e-05",
     _mlp_class |-> "LLaMAMLP", intermediate_size |-> 2048,
     n_query_groups |-> 1 ],
  [ org |-> "openlm-research", name |-> "open_llama_3b",
     block_size |-> 2048, vocab_size |-> 32000, padding_multiple |-> 64,
     n_layer |-> 26, n_head |-> 32, n_embd |-> 3200,
     rotary_percentage |-> "1.0", parallel_residual |-> FALSE,
     bias |-> FALSE, _norm_class |-> "RMSNorm", norm_eps |-> "1e-06",
     _mlp_class |-> "LLaMAMLP", intermediate_size |-> 8640 ],
  [ org |-> "openlm-research", name |-> "open_llama_7b",
     block_size |-> 2048, vocab_size |-> 32000, padding_multiple |-> 64,
     n_layer |-> 32, n_head |-> 32, n_embd |-> 4096,
     rotary_percentage |-> "1.0", parallel_residual |-> FALSE,
     bias |-> FALSE, _norm_class |-> "RMSNorm", norm_eps |-> "1e-06",
     _mlp_class |-> "LLaMAMLP", intermediate_size |-> 11008 ],
  [ org |-> "openlm-research", name |-> "open_llama_13b",
     block_size |-> 2048, vocab_size |-> 32000, padding_multiple |-> 64,
     n_layer |-> 40, n_head |-> 40, n_embd |-> 5120,
     rotary_percentage |-> "1.0", parallel_residual |-> FALSE,
     bias |-> FALSE, _norm_class |-> "RMSNorm", norm_eps |-> "1e-06",
     _mlp_class |-> "LLaMAMLP", intermediate_size |-> 13824 ],
  [ org |-> "lmsys", name |-> "vicuna-7b-v1.3", block_size |-> 2048,
     vocab_size |-> 32000, padding_multiple |-> 64, n_layer |-> 32,
     n_head |-> 32, n_embd |-> 4096, rotary_percentage |-> "1.0",
     parallel_residual |-> FALSE, bias |-> FALSE, _norm_class |-> "RMSNorm",
     norm_eps |-> "1e-06", _mlp_class |-> "LLaMAMLP",
     intermediate_size |-> 11008 ],
  [ org |-> "lmsys", name |-> "vicuna-13b-v1.3", block_size |-> 2048,
     vocab_size |-> 32000, padding_multiple |-> 64, n_layer |-> 40,
     n_head |-> 40, n_embd |-> 5120, rotary_percentage |-> "1.0",
     parallel_residual |-> FALSE, bias |-> FALSE, _norm_class |-> "RMSNorm",
     norm_eps |-> "1e-06", _mlp_class |-> "LLaMAMLP",
     intermediate_size |-> 13824 ],
  [ org |-> "lmsys", name |-> "vicuna-33b-v1.3", block_size |-> 2048,
     vocab_size |-> 32000, padding_multiple |-> 64, n_layer |-> 60,
     n_head |-> 52, n_embd |-> 6656, rotary_percentage |-> "1.0",
     parallel_residual |-> FALSE, bias |-> FALSE, _norm_class |-> "RMSNorm",
     norm_eps |-> "1e-06", _mlp_class |-> "LLaMAMLP",
     intermediate_size |-> 17920 ],
  [ org |-> "lmsys", name |-> "vicuna-7b-v1.5", block_size |-> 4096,
     vocab_size |-> 32000, padding_multiple |-> 64, n_layer |-> 32,
     n_head |-> 32, n_embd |-> 4096, rotary_percentage |-> "1.0",
     parallel_residual |-> FALSE, bias |-> FALSE, _norm_class |-> "RMSNorm",
     norm_eps |-> "1e-05", _mlp_class |-> "LLaMAMLP",
     intermediate_size |-> 11008 ],
  [ org |-> "lmsys", name |-> "vicuna-7b-v1.5-16k", block_size |-> 16384,
     vocab_size |-> 32000, padding_multiple |-> 64, n_layer |-> 32,
     n_head |-> 32, n_embd |-> 4096, rotary_percentage |-> "1.0",
     parallel_residual |-> FALSE, bias |-> FALSE, _norm_class |-> "RMSNorm",
     norm_eps |-> "1e-05", _mlp_class |-> "LLaMAMLP",
     intermediate_size |-> 11008, condense_ratio |-> 4 ],
  [ org |-> "lmsys", name |-> "vicuna-13b-v1.5", block_size |-> 4096,
     vocab_size |-> 32000, padding_multiple |-> 64, n_layer |-> 40,
     n_head |-> 40, n_embd |-> 5120, rotary_percentage |-> "1.0",
     parallel_residual |-> FALSE, bias |-> FALSE, _norm_class |-> "RMSNorm",
     norm_eps |-> "1e-05", _mlp_class |-> "LLaMAMLP",
     intermediate_size |-> 13824 ],
  [ org |-> "lmsys", name |-> "vicuna-13b-v1.5-16k", block_size |-> 16384,
     vocab_size |-> 32000, padding_multiple |-> 64, n_layer |-> 40,
     n_head |-> 40, n_embd |-> 5120, rotary_percentage |-> "1.0",
     parallel_residual |-> FALSE, bias |-> FALSE, _norm_class |-> "RMSNorm",
     norm_eps |-> "1e-05", _mlp_class |-> "LLaMAMLP",
     intermediate_size |-> 13824, condense_ratio |-> 4 ],
  [ org |-> "lmsys", name |-> "longchat-7b-16k", block_size |-> 16384,
     vocab_size |-> 32000, padding_multiple |-> 64, n_layer |-> 32,
     n_head |-> 32, n_embd |-> 4096, rotary_percentage |-> "1.0",
     parallel_residual |-> FALSE, bias |-> FALSE, _norm_class |-> "RMSNorm",
     norm_eps |-> "1e-06", _mlp_class |-> "LLaMAMLP",
     intermediate_size |-> 11008, condense_ratio |-> 8 ],
  [ org |-> "lmsys", name |-> "longchat-13b-16k", block_size |-> 16384,
     vocab_size |-> 32000, padding_multiple |-> 64, n_layer |-> 40,
     n_head |-> 40, n_embd |-> 5120, rotary_percentage |-> "1.0",
     parallel_residual |-> FALSE, bias |-> FALSE, _norm_class |-> "RMSNorm",
     norm_eps |-> "1e-06", _mlp_class |-> "LLaMAMLP",
     intermediate_size |-> 13824, condense_ratio |-> 8 ],
  [ org |-> "NousResearch", name |-> "Nous-Hermes-13b", block_size |-> 2048,
     padded_vocab_size |-> 32001, n_layer |-> 40, n_head |-> 40,
     n_embd |-> 5120, rotary_percentage |-> "1.0",
     parallel_residual |-> FALSE, bias |-> FALSE, _norm_class |-> "RMSNorm",
     norm_eps |-> "1e-06", _mlp_class |-> "LLaMAMLP",
     intermediate_size |-> 13824 ],
  [ org |-> "meta-llama", name |-> "Llama-2-7b-hf", block_size |-> 4096,
     vocab_size |-> 32000, padding_multiple |-> 64, n_layer |-> 32,
     n_head |-> 32, n_embd |-> 4096, rotary_percentage |-> "1.0",
     parallel_residual |-> FALSE, bias |-> FALSE, _norm_class |-> "RMSNorm",
     norm_eps |-> "1e-05", _mlp_class |-> "LLaMAMLP",
     intermediate_size |-> 11008 ],
  [ org |-> "meta-llama", name |-> "Llama-2-7b-chat-hf",
     block_size |-> 4096, vocab_size |-> 32000, padding_multiple |-> 64,
     n_layer |-> 32, n_head |-> 32, n_embd |-> 4096,
     rotary_percentage |-> "1.0", parallel_residual |-> FALSE,
     bias |-> FALSE, _norm_class |-> "RMSNorm", norm_eps |-> "1e-05",
     _mlp_class |-> "LLaMAMLP", intermediate_size |-> 11008 ],
  [ org |-> "meta-llama", name |-> "CodeLlama-2-7b-hf", block_size |-> 4096,
     vocab_size |-> 32016, padded_vocab_size |-> 32016,
     padding_multiple |-> 64, n_layer |-> 32, n_head |-> 32, n_embd |-> 4096,
     rotary_percentage |-> "1.0", parallel_residual |-> FALSE,
     bias |-> FALSE, _norm_class |-> "RMSNorm", norm_eps |-> "1e-05",
     _mlp_class |-> "LLaMAMLP", intermediate_size |-> 11008 ],
  [ org |-> "meta-llama", name |-> "CodeLlama-2-7b-hf", block_size |-> 4096,
     vocab_size |-> 32016, padded_vocab_size |-> 32016,
     padding_multiple |-> 64, n_layer |-> 32, n_head |-> 32, n_embd |-> 4096,
     rotary_percentage |-> "1.0", parallel_residual |-> FALSE,
     bias |-> FALSE, _norm_class |-> "RMSNorm", norm_eps |-> "1e-05",
     _mlp_class |-> "LLaMAMLP", intermediate_size |-> 11008 ],
  [ org |-> "meta-llama", name |-> "Llama-2-13b-hf", block_size |-> 4096,
     vocab_size |-> 32000, padding_multiple |-> 64, n_layer |-> 40,
     n_head |-> 40, n_embd |-> 5120, rotary_percentage |-> "1.0",
     parallel_residual |-> FALSE, bias |-> FALSE, _norm_class |-> "RMSNorm",
     norm_eps |-> "1e-05", _mlp_class |-> "LLaMAMLP",
     intermediate_size |-> 13824 ],
  [ org |-> "meta-llama", name |-> "Llama-2-13b-chat-hf",
     block_size |-> 4096, vocab_size |-> 32000, padding_multiple |-> 64,
     n_layer |-> 40, n_head |-> 40, n_embd |-> 5120,
     rotary_percentage |-> "1.0", parallel_residual |-> FALSE,
     bias |-> FALSE, _norm_class |-> "RMSNorm", norm_eps |-> "1e-05",
     _mlp_class |-> "LLaMAMLP", intermediate_size |-> 13824 ],
  [ org |-> "meta-llama", name |-> "Llama-2-70b-hf", block_size |-> 4096,
     vocab_size |-> 32000, padding_multiple |-> 64, n_layer |-> 80,
     n_head |-> 64, n_embd |-> 8192, n_query_groups |-> 8,
     rotary_percentage |-> "1.0", parallel_residual |-> FALSE,
     bias |-> FALSE, _norm_class |-> "RMSNorm", norm_eps |-> "1e-05",
     _mlp_class |-> "LLaMAMLP", intermediate_size |-> 28672 ],
  [ org |-> "meta-llama", name |-> "Llama-2-70b-chat-hf",
     block_size |-> 4096, vocab_size |-> 32000, padding_multiple |-> 64,
     n_layer |-> 80, n_head |-> 64, n_embd |-> 8192, n_query_groups |-> 8,
     rotary_percentage |-> "1.0", parallel_residual |-> FALSE,
     bias |-> FALSE, _norm_class |-> "RMSNorm", norm_eps |-> "1e-05",
     _mlp_class |-> "LLaMAMLP", intermediate_size |-> 28672 ],
  [ name |-> "Llama-3-8B",
     hf_config |-> [org |-> "meta-llama", name |-> "Meta-Llama-3-8B"],
     block_size |-> 8192, vocab_size |-> 128000,
     padded_vocab_size |-> 128256, n_layer |-> 32, n_head |-> 32,
     n_query_groups |-> 8, rotary_percentage |-> "1.0",
     parallel_residual |-> FALSE, bias |-> FALSE,
     norm_class_name |-> "RMSNorm", mlp_class_name |-> "LLaMAMLP",
     intermediate_size |-> 14336, rope_base |-> 500000 ],
  [ name |-> "Llama-3-8B-Instruct",
     hf_config |-> [org |-> "meta-llama", name |-> "Meta-Llama-3-8B-Instruct"],
     block_size |-> 8192, vocab_size |-> 128000,
     padded_vocab_size |-> 128256, n_layer |-> 32, n_head |-> 32,
     n_query_groups |-> 8, rotary_percentage |-> "1.0",
     parallel_residual |-> FALSE, bias |-> FALSE,
     norm_class_name |-> "RMSNorm", mlp_class_name |-> "LLaMAMLP",
     intermediate_size |-> 14336, rope_base |-> 500000 ],
  [ name |-> "Llama-3-70B",
     hf_config |-> [org |-> "meta-llama", name |-> "Meta-Llama-3-70B"],
     block_size |-> 8192, vocab_size |-> 128000,
     padded_vocab_size |-> 128256, n_layer |-> 80, n_head |-> 64,
     n_embd |-> 8192, n_query_groups |-> 8, rotary_percentage |-> "1.0",
     parallel_residual |-> FALSE, bias |-> FALSE,
     norm_class_name |-> "RMSNorm", mlp_class_name |-> "LLaMAMLP",
     intermediate_size |-> 28672, rope_base |-> 500000 ],
  [ name |-> "Llama-3-70B-Instruct",
     hf_config |-> [org |-> "meta-llama", name |-> "Meta-Llama-3-70B-Instruct"],
     block_size |-> 8192, vocab_size |-> 128000,
     padded_vocab_size |-> 128256, n_layer |-> 80, n_head |-> 64,
     n_embd |-> 8192, n_query_groups |-> 8, rotary_percentage |-> "1.0",
     parallel_residual |-> FALSE, bias |-> FALSE,
     norm_class_name |-> "RMSNorm", mlp_class_name |-> "LLaMAMLP",
     intermediate_size |-> 28672, rope_base |-> 500000 ],
  [ name |-> "Gemma-2b",
     hf_config |-> [org |-> "google", name |-> "gemma-2b"],
     scale_embeddings |-> TRUE, vocab_size |-> 256000,
     padding_multiple |-> 64, n_embd |-> 2048, n_layer |-> 18, n_head |-> 8,
     n_query_groups |-> 1, rotary_percentage |-> "1.0",
     parallel_residual |-> FALSE, bias |-> FALSE,
     norm_class_name |-> "RMSNorm", mlp_class_name |-> "GemmaMLP",
     gelu_approximate |-> "tanh", intermediate_size |-> 16384 ],
  [ name |-> "Gemma-7b",
     hf_config |-> [org |-> "google", name |-> "gemma-7b"],
     scale_embeddings |-> TRUE, vocab_size |-> 256000,
     padding_multiple |-> 64, n_embd |-> 3072, n_layer |-> 28, n_head |-> 16,
     head_size |-> 256, rotary_percentage |-> "1.0",
     parallel_residual |-> FALSE, bias |-> FALSE,
     norm_class_name |-> "RMSNorm", mlp_class_name |-> "GemmaMLP",
     gelu_approximate |-> "tanh", intermediate_size |-> 24576 ],
  [ name |-> "Gemma-2b-it",
     hf_config |-> [org |-> "google", name |-> "gemma-2b-it"],
     scale_embeddings |-> TRUE, vocab_size |-> 256000,
     padding_multiple |-> 64, n_embd |-> 2048, n_layer |-> 18, n_head |-> 8,
     n_query_groups |-> 1, rotary_percentage |-> "1.0",
     parallel_residual |-> FALSE, bias |-> FALSE,
     norm_class_name |-> "RMSNorm", mlp_class_name |-> "GemmaMLP",
     gelu_approximate |-> "tanh", intermediate_size |-> 16384 ],
  [ name |-> "Gemma-7b-it",
     hf_config |-> [org |-> "google", name |-> "gemma-7b-it"],
     scale_embeddings |-> TRUE, vocab_size |-> 256000,
     padding_multiple |-> 64, n_embd |-> 3072, n_layer |-> 28, n_head |-> 16,
     head_size |-> 256, rotary_percentage |-> "1.0",
     parallel_residual |-> FALSE, bias |-> FALSE,
     norm_class_name |-> "RMSNorm", mlp_class_name |-> "GemmaMLP",
     gelu_approximate |-> "tanh", intermediate_size |-> 24576 ],
  [ name |-> "CodeGemma-7b-it",
     hf_config |-> [org |-> "google", name |-> "codegemma-7b-it"],
     scale_embeddings |-> TRUE, vocab_size |-> 256000,
     padding_multiple |-> 64, n_embd |-> 3072, n_layer |-> 28, n_head |-> 16,
     head_size |-> 256, rotary_percentage |-> "1.0",
     parallel_residual |-> FALSE, bias |-> FALSE,
     norm_class_name |-> "RMSNorm", mlp_class_name |-> "GemmaMLP",
     gelu_approximate |-> "tanh", intermediate_size |-> 24576 ],
  [ org |-> "stabilityai", name |-> "FreeWilly2", block_size |-> 4096,
     vocab_size |-> 32000, padding_multiple |-> 64, n_layer |-> 80,
     n_head |-> 64, n_embd |-> 8192, n_query_groups |-> 8,
     rotary_percentage |-> "1.0", parallel_residual |-> FALSE,
     bias |-> FALSE, _norm_class |-> "RMSNorm", norm_eps |-> "1e-05",
     _mlp_class |-> "LLaMAMLP", intermediate_size |-> 28672 ],
  [ name |-> "phi-1_5",
     hf_config |-> [org |-> "microsoft", name |-> "phi-1_5"],
     vocab_size |-> 50257, padded_vocab_size |-> 51200, block_size |-> 2048,
     n_embd |-> 2048, n_layer |-> 24, rotary_percentage |-> "0.5",
     shared_attention_norm |-> TRUE, lm_head_bias |-> TRUE,
     gelu_approximate |-> "tanh" ],
  [ name |-> "phi-2", hf_config |-> [org |-> "microsoft", name |-> "phi-2"],
     vocab_size |-> 50257, padded_vocab_size |-> 51200, block_size |-> 2048,
     n_embd |-> 2560, n_layer |-> 32, rotary_percentage |-> "0.4",
     shared_attention_norm |-> TRUE, lm_head_bias |-> TRUE,
     gelu_approximate |-> "tanh" ],
  [ name |-> "Mistral-7B-v0.1",
     hf_config |-> [org |-> "mistralai", name |-> "Mistral-7B-v0.1"],
     padded_vocab_size |-> 32000, block_size |-> 4096, n_layer |-> 32,
     n_query_groups |-> 8, rotary_percentage |-> "1.0",
     parallel_residual |-> FALSE, bias |-> FALSE, _norm_class |-> "RMSNorm",
     norm_eps |-> "1e-05", _mlp_class |-> "LLaMAMLP",
     intermediate_size |-> 14336 ],
  [ name |-> "Mistral-7B-Instruct-v0.1",
     hf_config |-> [org |-> "mistralai", name |-> "Mistral-7B-Instruct-v0.1"],
     padded_vocab_size |-> 32000, block_size |-> 4096, n_layer |-> 32,
     n_query_groups |-> 8, rotary_percentage |-> "1.0",
     parallel_residual |-> FALSE, bias |-> FALSE, _norm_class |-> "RMSNorm",
     norm_eps |-> "1e-05", _mlp_class |-> "LLaMAMLP",
     intermediate_size |-> 14336 ],
  [ name |-> "Mixtral-8x7B-v0.1",
     hf_config |-> [org |-> "mistralai", name |-> "Mixtral-8x7B-v0.1"],
     padded_vocab_size |-> 32000, block_size |-> 4096, n_layer |-> 32,
     n_query_groups |-> 8, rotary_percentage |-> "1.0",
     parallel_residual |-> FALSE, bias |-> FALSE, _norm_class |-> "RMSNorm",
     norm_eps |-> "1e-05", _mlp_class |-> "LLaMAMoE",
     intermediate_size |-> 14336, rope_base |-> 1000000, n_expert |-> 8,
     n_expert_per_token |-> 2 ],
  [ name |-> "Mixtral-8x7B-Instruct-v0.1",
     hf_config |-> [org |-> "mistralai", name |-> "Mixtral-8x7B-Instruct-v0.1"],
     padded_vocab_size |-> 32000, block_size |-> 4096, n_layer |-> 32,
     n_query_groups |-> 8, rotary_percentage |-> "1.0",
     parallel_residual |-> FALSE, bias |-> FALSE, _norm_class |-> "RMSNorm",
     norm_eps |-> "1e-05", _mlp_class |-> "LLaMAMoE",
     intermediate_size |-> 14336, rope_base |-> 1000000, n_expert |-> 8,
     n_expert_per_token |-> 2 ],
  [ name |-> "Platypus-30B",
     hf_config |-> [org |-> "garage-bAInd", name |-> "Platypus-30B"],
     block_size |-> 2048, padded_vocab_size |-> 32000, n_layer |-> 60,
     n_head |-> 52, n_embd |-> 6656, rotary_percentage |-> "1.0",
     parallel_residual |-> FALSE, bias |-> FALSE, _norm_class |-> "RMSNorm",
     norm_eps |-> "1e-06", _mlp_class |-> "LLaMAMLP",
     intermediate_size |-> 17920 ],
  [ name |-> "Platypus2-7B",
     hf_config |-> [org |-> "garage-bAInd", name |-> "Platypus2-7B"],
     padded_vocab_size |-> 32000, n_layer |-> 32,
     rotary_percentage |-> "1.0", parallel_residual |-> FALSE,
     bias |-> FALSE, _norm_class |-> "RMSNorm", norm_eps |-> "1e-05",
     _mlp_class |-> "LLaMAMLP", intermediate_size |-> 11008 ],
  [ name |-> "Platypus2-13B",
     hf_config |-> [org |-> "garage-bAInd", name |-> "Platypus2-13B"],
     padded_vocab_size |-> 32000, n_layer |-> 40, n_head |-> 40,
     n_embd |-> 5120, rotary_percentage |-> "1.0",
     parallel_residual |-> FALSE, bias |-> FALSE, _norm_class |-> "RMSNorm",
     norm_eps |-> "1e-05", _mlp_class |-> "LLaMAMLP",
     intermediate_size |-> 13824 ],
  [ name |-> "Platypus2-70B",
     hf_config |-> [org |-> "garage-bAInd", name |-> "Platypus2-70B"],
     padded_vocab_size |-> 32000, n_layer |-> 80, n_head |-> 64,
     n_embd |-> 8192, rotary_percentage |-> "1.0",
     parallel_residual |-> FALSE, bias |-> FALSE, _norm_class |-> "RMSNorm",
     _mlp_class |-> "LLaMAMLP", intermediate_size |-> 28672 ],
  [ name |-> "Camel-Platypus2-13B",
     hf_config |-> [org |-> "garage-bAInd", name |-> "Camel-Platypus2-13B"],
     padded_vocab_size |-> 32000, n_layer |-> 40, n_head |-> 40,
     n_embd |-> 5120, rotary_percentage |-> "1.0",
     parallel_residual |-> FALSE, bias |-> FALSE, _norm_class |-> "RMSNorm",
     _mlp_class |-> "LLaMAMLP", intermediate_size |-> 13824 ],
  [ name |-> "Camel-Platypus2-70B",
     hf_config |-> [org |-> "garage-bAInd", name |-> "Camel-Platypus2-70B"],
     padded_vocab_size |-> 32000, n_layer |-> 80, n_head |-> 64,
     n_embd |-> 8192, n_query_groups |-> 8, rotary_percentage |-> "1.0",
     parallel_residual |-> FALSE, bias |-> FALSE, _norm_class |-> "RMSNorm",
     _mlp_class |-> "LLaMAMLP", intermediate_size |-> 28672 ],
  [ name |-> "Stable-Platypus2-13B",
     hf_config |-> [org |-> "garage-bAInd", name |-> "Stable-Platypus2-13B"],
     padded_vocab_size |-> 32000, n_layer |-> 40, n_head |-> 40,
     n_embd |-> 5120, rotary_percentage |-> "1.0",
     parallel_residual |-> FALSE, bias |-> FALSE, _norm_class |-> "RMSNorm",
     _mlp_class |-> "LLaMAMLP", intermediate_size |-> 13824 ],
  [ name |-> "Platypus2-70B-instruct",
     hf_config |-> [org |-> "garage-bAInd", name |-> "Platypus2-70B-instruct"],
     padded_vocab_size |-> 32000, n_layer |-> 80, n_head |-> 64,
     n_embd |-> 8192, n_query_groups |-> 8, rotary_percentage |-> "1.0",
     parallel_residual |-> FALSE, bias |-> FALSE, _norm_class |-> "RMSNorm",
     _mlp_class |-> "LLaMAMLP", intermediate_size |-> 28672 ],
  [ name |-> "tiny-llama-1.1b",
     hf_config |-> [org |-> "TinyLlama", name |-> "TinyLlama-1.1B-intermediate-step-955k-token-2T"],
     block_size |-> 2048, vocab_size |-> 32000, padding_multiple |-> 64,
     n_layer |-> 22, n_head |-> 32, n_embd |-> 2048,
     rotary_percentage |-> "1.0", parallel_residual |-> FALSE,
     bias |-> FALSE, _norm_class |-> "RMSNorm", norm_eps |-> "1e-05",
     _mlp_class |-> "LLaMAMLP", intermediate_size |-> 5632,
     n_query_groups |-> 4 ],
  [ name |-> "tiny-llama-1.1bchat",
     hf_config |-> [org |-> "TinyLlama", name |-> "TinyLlama-1.1B-Chat-v0.6"],
     block_size |-> 2048, vocab_size |-> 32000, padding_multiple |-> 64,
     n_layer |-> 22, n_head |-> 32, n_embd |-> 2048,
     rotary_percentage |-> "1.0", parallel_residual |-> FALSE,
     bias |-> FALSE, _norm_class |-> "RMSNorm", norm_eps |-> "1e-05",
     _mlp_class |-> "LLaMAMLP", intermediate_size |-> 5632,
     n_query_groups |-> 4 ],
  [ name |-> "Llama-2-7b-chat-hf-function-calling-v2",
     hf_config |-> [org |-> "Trelis", name |-> "Llama-2-7b-chat-hf-function-calling-v2"],
     padding_multiple |-> 64, n_layer |-> 32, rotary_percentage |-> "1.0",
     parallel_residual |-> FALSE, bias |-> FALSE, _norm_class |-> "RMSNorm",
     _mlp_class |-> "LLaMAMLP", intermediate_size |-> 11008,
     norm_eps |-> "1e-06", block_size |-> 4096, vocab_size |-> 32000,
     n_head |-> 32, n_embd |-> 4096, rope_base |-> 10000 ],
  [ org |-> "creative_EE", name |-> "TinyLlama3", block_size |-> 2048,
     vocab_size |-> 128000, padded_vocab_size |-> 128256,
     padding_multiple |-> 64, n_layer |-> 22, n_head |-> 32, n_embd |-> 2048,
     rotary_percentage |-> "1.0", parallel_residual |-> FALSE,
     bias |-> FALSE, ffn_dim_multiplier |-> "1.3",
     _norm_class |-> "FusedRMSNorm", norm_eps |-> "1e-05",
     _mlp_class |-> "LLaMAMLP", intermediate_size |-> 5632,
     n_query_groups |-> 4, condense_ratio |-> 4, rope_base |-> 50000,
     rope_condense_ratio |-> 4 ]
  >>

\* {config["name"]: config for config in configs}: a later entry of the
\* list replaces an earlier one of the same name
name_to_config ==
  [n \in {configs[k].name : k \in 1..Len(configs)} |->
     configs[CHOOSE k \in 1..Len(configs) :
               /\ configs[k].name = n
               /\ \A j \in (k + 1)..Len(configs) : configs[j].name # n]]

\* no call of from_name has been made
NoCall == [pc |-> "idle", name |-> "", conf_dict |-> <<>>, self |-> <<>>,
           error |-> "none"]

\* the call ends with the exception e
RaiseIn(call, e) == [call EXCEPT !.pc = "raised", !.error = e]

\* from_name(name) without overrides: the preset is looked up and copied,
\* and update(kwargs) adds nothing
from_name_lookup ==
  /\ config_call.pc = "idle"
  /\ \E name \in DOMAIN name_to_config :
       config_call' = [NoCall EXCEPT !.pc = "init", !.name = name,
                                     !.conf_dict = name_to_config[name]]
  /\ UNCHANGED <<inputs, pc, chunked_filenames, processes, joined, result,
                 status, error, fidx, ridx, builder, dirCreated, disk>>

\* the object __init__ builds from keywords that are all fields: every
\* field from its keyword or its default
FieldsFrom(conf_dict) ==
  [f \in ConfigFields |->
     IF f \in DOMAIN conf_dict THEN conf_dict[f] ELSE ConfigDefaults[f]]

\* cls(**conf_dict): the generated __init__ rejects a keyword that is not
\* a field, and otherwise sets the fields
Config_init ==
  /\ config_call.pc = "init"
  /\ config_call' =
       IF DOMAIN config_call.conf_dict \subseteq ConfigFields
       THEN [config_call EXCEPT !.pc = "post_init",
                                !.self = FieldsFrom(config_call.conf_dict)]
       ELSE RaiseIn(config_call, "TypeError")
  /\ UNCHANGED <<inputs, pc, chunked_filenames, processes, joined, result,
                 status, error, fidx, ridx, builder, dirCreated, disk>>

\* the exception __post_init__ raises on the object, or "none"
PostInitError(self) ==
  IF self.n_embd % self.n_head # 0 THEN "AssertionError"
  ELSE IF self.n_query_groups # None
            /\ self.n_head % self.n_query_groups # 0
  THEN "AssertionError"
  ELSE IF self.intermediate_size = None /\ self._mlp_class = "LLaMAMLP"
  THEN "ValueError"
  ELSE "none"

\* the derived values __post_init__ stores in the object
PostInitValues(self) ==
  [self EXCEPT
     !.padded_vocab_size =
        IF @ = None THEN find_multiple(self.vocab_size, self.padding_multiple)
        ELSE @,
     !.n_query_groups = IF @ = None THEN self.n_head ELSE @,
     !.intermediate_size = IF @ = None THEN 4 * self.n_embd ELSE @]

\* __post_init__ runs at the end of __init__; from_name returns the object
Config_post_init ==
  /\ config_call.pc = "post_init"
  /\ config_call' =
       IF PostInitError(config_call.self) # "none"
       THEN RaiseIn(config_call, PostInitError(config_call.self))
       ELSE [config_call EXCEPT !.pc = "returned",
                                !.self = PostInitValues(config_call.self)]
  /\ UNCHANGED <<inputs, pc, chunked_filenames, processes, joined, result,
                 status, error, fidx, ridx, builder, dirCreated, disk>>

(* ---------------------------- initial state ---------------------------- *)
Init ==
  /\ \E n \in 0..MaxFiles : \E s \in 0..(Len(Documents) - 1) :
       /\ filenames = [f \in 1..n |-> f]
       /\ corpus = CorpusOf(n, s)
       /\ vocab_size = VocabSizes[s + 1]
  /\ num_processes \in 1..MaxProcs
  /\ chunk_size \in (-1)..MaxChunk
  /\ pc = "split"
  /\ chunked_filenames = <<>>
  /\ processes = <<>>
  /\ joined = 0
  /\ result = "none"
  /\ status = [i \in Procs |-> "unborn"]
  /\ error = [i \in Procs |-> "none"]
  /\ fidx = [i \in Procs |-> 1]
  /\ ridx = [i \in Procs |-> 0]
  /\ builder = [i \in Procs |-> NoBuilder]
  /\ dirCreated = FALSE
  /\ disk = {}
  /\ config_call = NoCall

(* ---------------------------- prepare ---------------------------------- *)
\* filenames_subset of process i
Group(i) == chunked_filenames[i + 1]

Terminated(i) == status[i] \in {"done", "failed"}

prepare_split ==
  /\ pc = "split"
  /\ chunked_filenames' = array_split(filenames, num_processes)
  /\ pc' = "spawn"
  /\ UNCHANGED <<config_call, inputs, processes, joined, result, status, error, fidx, ridx,
                 builder, dirCreated, disk>>

\* one iteration of `for i, subset in enumerate(chunked_filenames)`
prepare_start ==
  /\ pc = "spawn"
  /\ LET i == Len(processes)
     IN  /\ processes' = Append(processes, i)
         /\ status' = [status EXCEPT ![i] = "init"]
         /\ pc' = IF i + 1 = Len(chunked_filenames) THEN "join" ELSE "spawn"
  /\ UNCHANGED <<config_call, inputs, chunked_filenames, joined, result, error, fidx,
                 ridx, builder, dirCreated, disk>>

JoinStep(waits) ==
  /\ pc = "join"
  /\ joined < Len(processes)
  /\ waits => Terminated(processes[joined + 1])
  /\ joined' = joined + 1
  /\ UNCHANGED <<config_call, inputs, pc, chunked_filenames, processes, result, status,
                 error, fidx, ridx, builder, dirCreated, disk>>

prepare_join_nowait == JoinStep(FALSE)

\* one iteration of `for p in processes: p.join()`
prepare_join == JoinStep(TRUE)

\* the elapsed time is printed and prepare returns normally
prepare_return ==
  /\ pc = "join"
  /\ joined = Len(processes)
  /\ pc' = "done"
  /\ result' = "success"
  /\ UNCHANGED <<config_call, inputs, chunked_filenames, processes, joined, status, error,
                 fidx, ridx, builder, dirCreated, disk>>

(* ---------------------------- prepare_full ----------------------------- *)
Prefix(i) == BuilderPrefix(split, i)

\* the rows of the file process i is at
Texts(i) == corpus[Group(i)[fidx[i]]]

\* the process ends with the exception e
Raise(i, e) ==
  /\ status' = [status EXCEPT ![i] = "failed"]
  /\ error' = [error EXCEPT ![i] = e]

SetupStep(i, auto) ==
  /\ status[i] = "init"
  /\ dirCreated' = TRUE
  /\ IF Group(i) = <<>>
     THEN /\ Raise(i, "RuntimeError")
          /\ builder' = builder
     ELSE IF chunk_size <= 0
     THEN /\ Raise(i, "ConfigError")
          /\ builder' = builder
     ELSE /\ status' = [status EXCEPT ![i] = "running"]
          /\ error' = error
          /\ builder' = [builder EXCEPT ![i] =
                           IF auto THEN NewBuilder(vocab_size)
                           ELSE [NewBuilder(vocab_size) EXCEPT !.dtype_width = 2]]
  /\ UNCHANGED <<config_call, inputs, pc, chunked_filenames, processes, joined, result,
                 fidx, ridx, disk>>

prepare_full_setup_uint16(i) == SetupStep(i, FALSE)

\* destination_path.mkdir; the empty-list check; the builder's construction
\* with dtype="auto", which fails when chunk_size <= 0
prepare_full_setup(i) == SetupStep(i, TRUE)

OpenStep(i, fresh) ==
  /\ status[i] = "running"
  /\ fidx[i] <= Len(Group(i))
  /\ ridx[i] = 0
  /\ \E ok \in BOOLEAN :
       IF ok
       THEN /\ UNCHANGED <<status, error>>
            /\ IF Texts(i) = <<>>
               THEN /\ fidx' = [fidx EXCEPT ![i] = fidx[i] + 1]
                    /\ ridx' = ridx
               ELSE /\ fidx' = fidx
                    /\ ridx' = [ridx EXCEPT ![i] = 1]
            /\ builder' = IF fresh
                          THEN [builder EXCEPT ![i] = NewBuilder(vocab_size)]
                          ELSE builder
       ELSE /\ Raise(i, "OSError")
            /\ builder' = [builder EXCEPT ![i] = Finalize(builder[i])]
            /\ UNCHANGED <<fidx, ridx>>
  /\ UNCHANGED <<config_call, inputs, pc, chunked_filenames, processes, joined, result,
                 dirCreated, disk>>

prepare_full_open_new_builder(i) == OpenStep(i, TRUE)

\* open(filepath) and json.load(f); either may raise, which ends the process
prepare_full_open(i) == OpenStep(i, FALSE)

AdvanceRowByTwo(i) ==
  IF ridx[i] + 1 >= Len(Texts(i))
  THEN /\ fidx' = [fidx EXCEPT ![i] = fidx[i] + 1]
       /\ ridx' = [ridx EXCEPT ![i] = 0]
  ELSE /\ fidx' = fidx
       /\ ridx' = [ridx EXCEPT ![i] = ridx[i] + 2]

\* the cursor moves past the row just processed
AdvanceRow(i) ==
  IF ridx[i] = Len(Texts(i))
  THEN /\ fidx' = [fidx EXCEPT ![i] = fidx[i] + 1]
       /\ ridx' = [ridx EXCEPT ![i] = 0]
  ELSE /\ fidx' = fidx
       /\ ridx' = [ridx EXCEPT ![i] = ridx[i] + 1]

RowStep(i, skipEmpty, dropLast) ==
  /\ status[i] = "running"
  /\ fidx[i] <= Len(Group(i))
  /\ ridx[i] >= 1
  /\ LET row == Texts(i)[ridx[i]]
         text_ids == IF dropLast /\ row # <<>>
                     THEN SubSeq(row, 1, Len(row) - 1) ELSE row
         r == add_array(builder[i], disk, text_ids, Prefix(i), chunk_size)
     IN  IF skipEmpty /\ text_ids = <<>>
         THEN UNCHANGED <<builder, disk>>
         ELSE /\ builder' = [builder EXCEPT ![i] = r.b]
              /\ disk' = r.disk
  /\ AdvanceRow(i)
  /\ UNCHANGED <<config_call, inputs, pc, chunked_filenames, processes, joined, result,
                 status, error, dirCreated>>

prepare_full_row_skip_empty(i) == RowStep(i, TRUE, FALSE)

prepare_full_row_unless_sibling_failed(i) ==
  /\ \A k \in Procs : status[k] # "failed"
  /\ RowStep(i, FALSE, FALSE)

prepare_full_row_drop_last(i) == RowStep(i, FALSE, TRUE)

\* one iteration of `for row in texts`: encode the row, add_array its ids
prepare_full_row(i) == RowStep(i, FALSE, FALSE)

prepare_full_end_shared_builder(i) ==
  /\ status[i] = "running"
  /\ fidx[i] > Len(Group(i))
  /\ status' = [status EXCEPT ![i] = "done"]
  /\ error' = error
  /\ builder' = [j \in Procs |-> Finalize(builder[j])]
  /\ UNCHANGED <<config_call, inputs, pc, chunked_filenames, processes, joined, result,
                 fidx, ridx, dirCreated, disk>>

prepare_full_end_reminder(i) ==
  /\ status[i] = "running"
  /\ fidx[i] > Len(Group(i))
  /\ status' = [status EXCEPT ![i] = "done"]
  /\ error' = error
  /\ LET r == WriteReminder(builder[i], disk, Prefix(i), chunk_size)
     IN  /\ builder' = [builder EXCEPT ![i] = r.b]
         /\ disk' = r.disk
  /\ UNCHANGED <<config_call, inputs, pc, chunked_filenames, processes, joined, result,
                 fidx, ridx, dirCreated>>

\* the loop is over: write_reminder is not called, the buffer is thrown away
prepare_full_end(i) ==
  /\ status[i] = "running"
  /\ fidx[i] > Len(Group(i))
  /\ status' = [status EXCEPT ![i] = "done"]
  /\ error' = error
  /\ builder' = [builder EXCEPT ![i] = Finalize(builder[i])]
  /\ UNCHANGED <<config_call, inputs, pc, chunked_filenames, processes, joined, result,
                 fidx, ridx, dirCreated, disk>>

\* the flush loop of add_array stopped after n shard writes
FlushUpTo(b, d, prefix, chunk, n) == FlushLoop(b, d, prefix, chunk, 0, n)

\* add_array on the current row, one of whose shard writes fails: the
\* shards before it are written, the failing write leaves no file
\* (part = -1) or a file cut off after part tokens
IOErrorStep(i, swallowed) ==
  /\ Cardinality({k \in Procs : error[k] = "IOError"}) < MaxWriteFaults
  /\ status[i] = "running"
  /\ fidx[i] <= Len(Group(i))
  /\ ridx[i] >= 1
  /\ LET pushed == [builder[i] EXCEPT
                      !.buffer = @ \o <<SepToken>> \o Texts(i)[ridx[i]]]
         m == Len(pushed.buffer) \div chunk_size
     IN  \E j \in 1..m : \E part \in (-1)..(chunk_size - 1) :
           LET r == FlushUpTo(pushed, disk, Prefix(i), chunk_size, j - 1)
           IN  /\ disk' = IF part = -1 THEN r.disk
                          ELSE WriteFile(r.disk,
                                 ShardFilename(Prefix(i), r.b.shard_index),
                                 SubSeq(r.b.buffer, 1, part))
               /\ IF swallowed
                  THEN /\ builder' = [builder EXCEPT ![i] = r.b]
                       /\ UNCHANGED <<status, error>>
                       /\ AdvanceRow(i)
                  ELSE /\ builder' = [builder EXCEPT ![i] = Finalize(r.b)]
                       /\ Raise(i, "IOError")
                       /\ UNCHANGED <<fidx, ridx>>
  /\ UNCHANGED <<config_call, inputs, pc, chunked_filenames, processes, joined, result,
                 dirCreated>>

prepare_full_row_ioerror_swallowed(i) == IOErrorStep(i, TRUE)

\* the IOError of a shard write leaves add_array and prepare_full, which
\* has no handler for it: the process ends
prepare_full_row_ioerror(i) == IOErrorStep(i, FALSE)

(* ---------------------------- specification ---------------------------- *)
Next ==
  \/ prepare_split
  \/ prepare_start
  \/ prepare_join
  \/ prepare_return
  \/ \E i \in Procs : prepare_full_setup(i)
  \/ \E i \in Procs : prepare_full_open(i)
  \/ \E i \in Procs : prepare_full_row(i)
  \/ \E i \in Procs : prepare_full_end(i)

Spec == Init /\ [][Next]_vars

\* the steps of process i
Worker(i) ==
  \/ prepare_full_setup(i)
  \/ prepare_full_open(i)
  \/ prepare_full_row(i)
  \/ prepare_full_end(i)

\* the runs in which shard writes may fail
NextIO ==
  \/ Next
  \/ \E i \in Procs : prepare_full_row_ioerror(i)

\* these runs are explored on machines with fewer than MaxProcs CPUs
InitIO == Init /\ num_processes < MaxProcs

SpecIO == InitIO /\ [][NextIO]_vars

\* the operating system keeps running every started process, and prepare
FairSpec ==
  /\ InitIO /\ [][Next]_vars
  /\ \A i \in Procs : WF_vars(Worker(i))
  /\ WF_vars(prepare_split \/ prepare_start \/ prepare_join \/ prepare_return)

\* a program that only builds a Config from a preset
NextConfig ==
  \/ from_name_lookup
  \/ Config_init
  \/ Config_post_init

InitConfig ==
  /\ Init
  /\ filenames = <<>>
  /\ num_processes = 1
  /\ chunk_size = 1
  /\ vocab_size = VocabSizes[1]

SpecConfig == InitConfig /\ [][NextConfig]_vars

TypeOK ==
  /\ pc \in {"split", "spawn", "join", "done"}
  /\ result \in {"none", "success", "failure"}
  /\ \A i \in Procs : status[i] \in {"unborn", "init", "running", "done", "failed"}
  /\ \A i \in Procs :
       error[i] \in {"none", "RuntimeError", "ConfigError", "OSError", "IOError"}
  /\ \A i \in Procs : (status[i] = "failed") = (error[i] # "none")
  /\ dirCreated \in BOOLEAN

(* ---------------------------- observers -------------------------------- *)
Spawned == {processes[j] : j \in 1..Len(processes)}

RECURSIVE Flatten(_)
\* the concatenation of a sequence of sequences
Flatten(ss) == IF ss = <<>> THEN <<>> ELSE Head(ss) \o Flatten(Tail(ss))

\* the rows process i has passed to add_array so far, in call order
Pushed(i) ==
  IF status[i] \in {"unborn", "init"} \/ Group(i) = <<>> THEN <<>>
  ELSE Flatten([j \in 1..(fidx[i] - 1) |-> corpus[Group(i)[j]]])
       \o (IF ridx[i] >= 1 THEN SubSeq(Texts(i), 1, ridx[i] - 1) ELSE <<>>)

\* the separator-interleaved token stream of a sequence of rows
Stream(rows) == Flatten([j \in 1..Len(rows) |-> <<SepToken>> \o rows[j]])

\* T: the tokens process i has appended, separators included
Total(i) == Len(Stream(Pushed(i)))

IsPrefix(s, t) == Len(s) <= Len(t) /\ s = SubSeq(t, 1, Len(s))

\* the files of the destination directory whose name starts with the prefix
\* of builder i followed by the underscore that precedes the shard index
ShardFilesOf(i) ==
  LET start == Prefix(i) \o <<"_">>
  IN  {f \in disk : IsPrefix(start, f.name)}

\* the files of the destination directory named as shard k of builder i
ShardAt(i, k) ==
  LET name == ShardFilename(Prefix(i), k)
  IN  {f \in disk : f.name = name}

HasShard(i, k) == ShardAt(i, k) # {}

ShardBody(i, k) == (CHOOSE f \in ShardAt(i, k) : TRUE).body

\* the bodies of the first n shards of builder i, concatenated in index order
ShardConcat(i, n) == Flatten([k \in 1..n |-> ShardBody(i, k - 1)])

(* ---------------------------- C1 ---------------------------------------- *)
\* C1: for every builder, whatever rows it has been given so far, the number
\* of shard files it has produced is floor(T / chunk_size), T being the
\* appended tokens with one separator per call, and every shard body holds
\* exactly chunk_size tokens.
C1_ShardCount ==
  \A i \in Procs : chunk_size > 0 =>
    LET shards == ShardFilesOf(i)
    IN  /\ Cardinality(shards) = Total(i) \div chunk_size
        /\ \A f \in shards : Len(f.body) = chunk_size

\* several appends, at least two shards and a partial chunk left over
C1_Witness ==
  \E i \in Procs :
    /\ Len(Pushed(i)) >= 2
    /\ Cardinality(ShardFilesOf(i)) >= 2
    /\ Total(i) % chunk_size # 0

(* ---------------------------- C2 ---------------------------------------- *)
\* C2: the shard bodies of one builder, concatenated in shard-index order,
\* are a prefix of its separator-interleaved token stream; while the builder
\* is live the buffer holds exactly the rest, and the only tokens missing
\* from the shards are the last T mod chunk_size ones (dropped at finalize).
C2_PrefixOfStream ==
  \A i \in Procs : chunk_size > 0 =>
    LET stream == Stream(Pushed(i))
        n == Len(stream) \div chunk_size
    IN  /\ \A k \in 0..(n - 1) : HasShard(i, k)
        /\ LET packed == ShardConcat(i, n)
           IN  /\ IsPrefix(packed, stream)
               /\ Len(stream) - Len(packed) = Len(stream) % chunk_size
               /\ status[i] = "running" =>
                    packed \o builder[i].buffer = stream

\* rows [5,6,7], [8], [9,10] with chunk_size 4: shards [1,5,6,7] and
\* [1,8,1,9], the token 10 thrown away when the process ends
C2_Witness ==
  \E i \in Procs :
    /\ status[i] = "done"
    /\ chunk_size = 4
    /\ Pushed(i) = << <<5, 6, 7>>, <<8>>, <<9, 10>> >>
    /\ ShardFilesOf(i) =
         {[name |-> ShardFilename(Prefix(i), 0), body |-> <<1, 5, 6, 7>>],
          [name |-> ShardFilename(Prefix(i), 1), body |-> <<1, 8, 1, 9>>]}
    /\ builder[i].buffer = <<>>

(* ---------------------------- C3 ---------------------------------------- *)
\* C3: after any append has returned the buffer is shorter than chunk_size.
C3_BufferBelowChunk ==
  \A i \in Procs : chunk_size > 0 => Len(builder[i].buffer) < chunk_size

\* a single append of a row longer than two chunks has returned
C3_Witness ==
  \E i \in Procs :
    /\ status[i] = "running"
    /\ Len(Pushed(i)) = 1
    /\ Total(i) >= 2 * chunk_size
    /\ Total(i) % chunk_size # 0
    /\ builder[i].shard_index >= 2

(* ---------------------------- C4 ---------------------------------------- *)
\* every shard of builder i is a full chunk of tokens of its own stream
ShardsAreReal(i) ==
  LET stream == Stream(Pushed(i))
      n == Cardinality(ShardFilesOf(i))
  IN  /\ n * chunk_size <= Len(stream)
      /\ \A k \in 0..(n - 1) :
           /\ HasShard(i, k)
           /\ ShardBody(i, k) =
                SubSeq(stream, k * chunk_size + 1, (k + 1) * chunk_size)

\* C4: the step that ends a process (normally or by an error) writes no
\* file and throws the buffer away, and no shard that is shorter than
\* chunk_size or padded with filler tokens is ever on disk.
C4_FinalizeDrops ==
  /\ [](\A i \in Procs : ShardsAreReal(i))
  /\ [][ \A i \in Procs :
          (status[i] = "running" /\ Terminated(i)') =>
            /\ disk' = disk
            /\ builder'[i].shard_index = builder[i].shard_index
            /\ builder'[i].buffer = <<>> ]_vars

\* a process has ended with a non-empty remainder and shards on disk
C4_Witness ==
  \E i \in Procs :
    /\ status[i] = "done"
    /\ Total(i) % chunk_size # 0
    /\ ShardFilesOf(i) # {}
    /\ builder[i].buffer = <<>>

(* ---------------------------- C5 ---------------------------------------- *)
\* the names builders 0..MaxPid give to shards 0..MaxIdx
TabulatedNames ==
  {<<p, k, ShardFilename(BuilderPrefix(split, p), k)>> :
     p \in 0..MaxPid, k \in 0..MaxIdx}

\* the names process i has written shards under
ShardNames(i) ==
  {ShardFilename(Prefix(i), k) : k \in 0..(builder[i].shard_index - 1)}

\* two tabulated names are equal only when their process ids are
TabulatedNamesDiffer ==
  \A a, b \in TabulatedNames : a[3] = b[3] => a[1] = b[1]

\* C5: builders with different prefixes never produce the same filename
\* (process ids 1 and 11 included), and every file of the destination
\* directory has been written by exactly one process.
C5_NoCollision ==
  /\ TabulatedNamesDiffer
  /\ \A i, j \in Procs :
       i # j => ShardNames(i) \cap ShardNames(j) = {}
  /\ \A f \in disk : \E i \in Procs : f.name \in ShardNames(i)

\* two processes have both written a shard
C5_Witness ==
  \E i, j \in Procs :
    /\ i # j
    /\ builder[i].shard_index >= 1
    /\ builder[j].shard_index >= 1
    /\ HasShard(i, 0)
    /\ HasShard(j, 0)

(* ---------------------------- C6 ---------------------------------------- *)
RECURSIVE SumLen(_)
SumLen(ss) == IF ss = <<>> THEN 0 ELSE Len(Head(ss)) + SumLen(Tail(ss))

Elems(s) == {s[j] : j \in 1..Len(s)}

\* groups is a partition of list into k contiguous near-equal slices
IsPartition(groups, list, k) ==
  /\ Len(groups) = k
  /\ Flatten(groups) = list
  /\ SumLen(groups) = Len(list)
  /\ \A s \in 1..k :
       \E a \in 1..(Len(list) + 1) :
         groups[s] = SubSeq(list, a, a + Len(groups[s]) - 1)
  /\ \A s, t \in 1..k :
       /\ Len(groups[s]) - Len(groups[t]) <= 1
       /\ s # t => Elems(groups[s]) \cap Elems(groups[t]) = {}

\* array_split partitions every list of up to MaxSplitLen files
TabulatedSplits ==
  \A n \in 0..MaxSplitLen : \A k \in 1..(MaxProcs + 1) :
    IsPartition(array_split([f \in 1..n |-> f], k), [f \in 1..n |-> f], k)

\* C6: the partition has num_processes contiguous, pairwise disjoint groups
\* whose sizes sum to n and differ by at most one and whose concatenation is
\* the file list; also for every list of up to MaxSplitLen files (11 files
\* in 4 groups among them).
C6_Partition ==
  /\ pc # "split" => IsPartition(chunked_filenames, filenames, num_processes)
  /\ TabulatedSplits

\* a list that does not divide evenly has been split
C6_Witness ==
  /\ pc # "split"
  /\ Len(filenames) % num_processes # 0
  /\ Len(filenames) > num_processes

(* ---------------------------- C7 ---------------------------------------- *)
\* C7: with an empty file list the run fails with InputError before doing
\* any work: no process is started, no directory created, no shard written.
C7_EmptyListFailsFast ==
  filenames = <<>> =>
    /\ processes = <<>>
    /\ ~dirCreated
    /\ disk = {}
    /\ pc = "done" => result = "InputError"

(* ---------------------------- C8 ---------------------------------------- *)
\* C8: when a started process has failed, the run reports failure.
C8_FailureReported ==
  (pc = "done" /\ \E i \in Spawned : status[i] = "failed") =>
    result = "failure"

(* ---------------------------- C9 ---------------------------------------- *)
\* C9: prepare has returned only if every process it started has ended.
C9_ReturnAfterAllJoined ==
  (pc = "done" \/ result # "none") => \A i \in Spawned : Terminated(i)

\* prepare has returned after starting several processes that did work
C9_Witness ==
  /\ pc = "done"
  /\ Len(processes) >= 2
  /\ \E i \in Spawned : status[i] = "done" /\ builder[i].shard_index >= 1

(* ---------------------------- C10 --------------------------------------- *)
\* C10: a process is started for exactly the non-empty groups; with fewer
\* files than processes the number started equals the number of files.
C10_OnlyNonEmptyGroups ==
  /\ \A i \in Spawned : Group(i) # <<>>
  /\ pc \in {"join", "done"} =>
       Len(processes) =
         Cardinality({s \in 1..Len(chunked_filenames) :
                        chunked_filenames[s] # <<>>})

(* ---------------------------- C11 --------------------------------------- *)
\* process i has constructed its builder
Constructed(i) ==
  \/ status[i] \in {"running", "done"}
  \/ error[i] \in {"OSError", "IOError"}

\* C11: a builder constructed with dtype="auto" has dtype_width 2 exactly
\* when vocab_size < 65500 and 4 otherwise (2 for 32000, 4 for 65500 and
\* 128256), in every state that follows its construction, whatever appends
\* and finalize have run since.
C11_DtypeWidth ==
  \A i \in Procs : Constructed(i) =>
    /\ builder[i].dtype_width \in {2, 4}
    /\ (builder[i].dtype_width = 2) = (vocab_size < 65500)
    /\ vocab_size = 32000 => builder[i].dtype_width = 2
    /\ vocab_size \in {65500, 128256} => builder[i].dtype_width = 4

\* at the boundary 65500 a builder has written shards and been finalized
C11_Witness ==
  \E i \in Procs :
    /\ vocab_size = 65500
    /\ status[i] = "done"
    /\ builder[i].shard_index >= 1
    /\ builder[i].dtype_width = 4

(* ---------------------------- C12 --------------------------------------- *)
\* the step is the return of an add_array call of process i
AppendReturned(i) ==
  /\ status[i] = "running"
  /\ ridx[i] >= 1
  /\ status'[i] = "running"
  /\ <<fidx'[i], ridx'[i]>> # <<fidx[i], ridx[i]>>

\* C12: an append puts the separator and then the row's tokens, in order,
\* behind the buffered tokens and only then cuts shards: the shards written
\* by the call followed by the buffer it leaves are the old buffer, one
\* separator and the row, also when the row is empty.
C12_SeparatorThenTokens ==
  [][ \A i \in Procs : AppendReturned(i) =>
        LET pushed == builder[i].buffer \o <<SepToken>> \o Texts(i)[ridx[i]]
            m == Len(pushed) \div chunk_size
        IN  /\ builder'[i].shard_index = builder[i].shard_index + m
            /\ builder'[i].buffer =
                 SubSeq(pushed, m * chunk_size + 1, Len(pushed))
            /\ \A k \in 0..(m - 1) :
                 [name |-> ShardFilename(Prefix(i), builder[i].shard_index + k),
                  body |-> SubSeq(pushed, k * chunk_size + 1,
                                  (k + 1) * chunk_size)] \in disk' ]_vars

\* an empty row has been appended behind buffered tokens: its separator
\* is the last token of the buffer
C12_Witness ==
  \E i \in Procs :
    /\ status[i] = "running"
    /\ Len(Pushed(i)) >= 2
    /\ Pushed(i)[Len(Pushed(i))] = <<>>
    /\ Len(builder[i].buffer) >= 2
    /\ builder[i].buffer[Len(builder[i].buffer)] = SepToken

(* ---------------------------- C13 --------------------------------------- *)
\* the files a step adds under the prefix of builder i
NewShardsOf(i) ==
  LET start == Prefix(i) \o <<"_">>
  IN  {f \in disk' \ disk : IsPrefix(start, f.name)}

\* C13: shard_index is 0 at construction and grows by one with each shard
\* written, so the shards of a builder carry the indices 0..shard_index-1
\* without gap or repeat, and a file once written stays on disk unchanged.
C13_IndexAndImmutability ==
  /\ [](\A i \in Procs :
          /\ (status[i] = "running" /\ Pushed(i) = <<>>) =>
               builder[i].shard_index = 0
          /\ Cardinality(ShardFilesOf(i)) = builder[i].shard_index
          /\ \A k \in 0..(builder[i].shard_index - 1) : HasShard(i, k))
  /\ [][ /\ \A f \in disk : f \in disk'
         /\ \A i \in Procs :
              builder'[i].shard_index =
                builder[i].shard_index + Cardinality(NewShardsOf(i)) ]_vars

\* a builder hands out index 2 or more while working on a later file of
\* its group
C13_Witness ==
  \E i \in Procs :
    /\ status[i] = "running"
    /\ fidx[i] >= 2
    /\ builder[i].shard_index >= 3
    /\ HasShard(i, 2)

C15_ConfigErrorBeforeIO ==
  [][ \A i \in Procs :
        /\ (chunk_size <= 0 /\ status[i] = "init" /\ Group(i) # <<>>
              /\ status'[i] # "init") => error'[i] = "ConfigError"
        /\ (error[i] = "none" /\ error'[i] = "ConfigError") =>
             /\ dirCreated' = dirCreated
             /\ disk' = disk ]_vars

(* ---------------------------- C16 --------------------------------------- *)
\* the private state of process i
Private(i) == <<status[i], error[i], fidx[i], ridx[i], builder[i]>>

\* C16: a failing shard write ends its process at once, with the row of the
\* failing append not completed, and is neither retried nor swallowed: a
\* process that is not ended by IOError has all its shards complete and
\* as many as its appends call for, and a process ended by IOError changes
\* nothing any more: no further shard, no further row.
C16_IOErrorIsFatal ==
  /\ [](\A i \in Procs : (chunk_size > 0 /\ error[i] # "IOError") =>
          LET shards == ShardFilesOf(i)
          IN  /\ Cardinality(shards) = Total(i) \div chunk_size
              /\ Cardinality(shards) = builder[i].shard_index
              /\ \A f \in shards : Len(f.body) = chunk_size)
  /\ [][ \A i \in Procs :
           /\ (error[i] = "none" /\ error'[i] = "IOError") =>
                /\ status[i] = "running"
                /\ status'[i] = "failed"
                /\ <<fidx'[i], ridx'[i]>> = <<fidx[i], ridx[i]>>
                /\ Cardinality({f \in NewShardsOf(i) :
                                  Len(f.body) # chunk_size}) <= 1
           /\ error[i] = "IOError" =>
                /\ Private(i)' = Private(i)
                /\ NewShardsOf(i) = {} ]_vars

\* a process has been ended by a write that failed after earlier shards of
\* the same append had been written, while another process went on to
\* finish
C16_Witness ==
  \E i, j \in Procs :
    /\ error[i] = "IOError"
    /\ builder[i].shard_index >= 1
    /\ ridx[i] >= 1
    /\ Cardinality(ShardFilesOf(i)) > Total(i) \div chunk_size
    /\ status[j] = "done"
    /\ builder[j].shard_index >= 1

(* ---------------------------- C17 --------------------------------------- *)
\* C17: once a run has ended in which a shard write failed, no file of the
\* destination directory has a body shorter than chunk_size.
C17_NoTruncatedShard ==
  (pc = "done" /\ \E i \in Spawned : error[i] = "IOError") =>
    \A f \in disk : Len(f.body) = chunk_size

(* ---------------------------- C18 --------------------------------------- *)
\* all the rows of the files of process i, in processing order
GroupRows(i) == Flatten([j \in 1..Len(Group(i)) |-> corpus[Group(i)[j]]])

\* the shard files process i writes when it runs through all its rows
ExpectedShards(i) ==
  LET stream == Stream(GroupRows(i))
  IN  {[name |-> ShardFilename(Prefix(i), k),
        body |-> SubSeq(stream, k * chunk_size + 1, (k + 1) * chunk_size)] :
         k \in 0..((Len(stream) \div chunk_size) - 1)}

\* C18: when a process has failed, every other started process still runs
\* on until it has ended itself, and a process that has run through its
\* files has written exactly the shards its own files call for, whatever
\* became of the others.
C18_SiblingsUnaffected ==
  /\ \A j \in Procs :
       (status[j] \in {"init", "running"}
          /\ \E i \in Procs \ {j} : status[i] = "failed") ~> Terminated(j)
  /\ [](\A j \in Procs : status[j] = "done" => ShardFilesOf(j) = ExpectedShards(j))

\* one process has failed and another has finished its shards after that
C18_Witness ==
  \E i, j \in Procs :
    /\ i < j
    /\ status[i] = "failed"
    /\ fidx[i] = 1 /\ ridx[i] = 0
    /\ status[j] = "done"
    /\ Cardinality(ShardFilesOf(j)) >= 2

(* ---------------------------- C19 --------------------------------------- *)
\* C19: a step of process i changes the state of no other process and the
\* state of prepare not at all: the builder, cursor, status and error of
\* every other process stay as they were, no file is removed or rewritten,
\* and every file the step adds is named under the prefix of process i and
\* under the prefix of no other process. Files are added by such steps
\* only.
C19_NoSharedState ==
  [][ /\ \A i \in Procs :
           (status[i] \in {"init", "running"} /\ Private(i)' # Private(i)) =>
             /\ \A j \in Procs \ {i} : Private(j)' = Private(j)
             /\ \A f \in disk : f \in disk'
             /\ \A f \in disk' \ disk :
                  /\ IsPrefix(Prefix(i) \o <<"_">>, f.name)
                  /\ \A j \in Procs \ {i} :
                       ~IsPrefix(Prefix(j) \o <<"_">>, f.name)
             /\ UNCHANGED <<config_call, inputs, pc, chunked_filenames, processes, joined,
                            result>>
      /\ disk' # disk =>
           \E i \in Procs : status[i] = "running" /\ Private(i)' # Private(i)
    ]_vars

\* two processes are at work at once, each with shards on disk and tokens
\* in its buffer
C19_Witness ==
  \E i, j \in Procs :
    /\ i < j
    /\ status[i] = "running" /\ status[j] = "running"
    /\ builder[i].shard_index >= 1 /\ builder[j].shard_index >= 1
    /\ builder[i].buffer # <<>> /\ builder[j].buffer # <<>>
    /\ HasShard(i, 0) /\ HasShard(j, 0)

(* ---------------------------- C20 --------------------------------------- *)
RECURSIVE TokensIn(_)
\* the number of tokens in a set of files
TokensIn(fs) ==
  IF fs = {} THEN 0
  ELSE LET f == CHOOSE g \in fs : TRUE
       IN  Len(f.body) + TokensIn(fs \ {f})

RECURSIVE Sum(_, _)
\* the sum of f over the set S
Sum(f, S) ==
  IF S = {} THEN 0
  ELSE LET x == CHOOSE y \in S : TRUE
       IN  f[x] + Sum(f, S \ {x})

\* the tokens a run of k processes over the files packs into shards when
\* every process runs through its group
PackedTotal(files, corp, k, chunk) ==
  LET groups == array_split(files, k)
      T(g) == Len(Stream(Flatten([j \in 1..Len(groups[g]) |->
                                    corp[groups[g][j]]])))
  IN  Sum([g \in 1..k |-> chunk * (T(g) \div chunk)], 1..k)

\* some file list and chunk size pack to different totals under two
\* process counts
PackedTotalVaries ==
  \E n \in 1..MaxFiles : \E s \in 0..(Len(Documents) - 1) :
    \E chunk \in 1..MaxChunk : \E k1, k2 \in 1..MaxProcs :
      PackedTotal([f \in 1..n |-> f], CorpusOf(n, s), k1, chunk)
        # PackedTotal([f \in 1..n |-> f], CorpusOf(n, s), k2, chunk)

\* C20: the tokens in the shard files are, at every moment, the sum over
\* the processes of chunk_size * floor(T_i / chunk_size), T_i being the
\* tokens process i has appended with their separators: no leftover of one
\* process is combined with another's. When prepare has returned and no
\* process was stopped by an unreadable file, that sum is the one computed
\* from the groups of array_split, and it is not the same for every
\* process count.
C20_PerWorkerPacking ==
  /\ PackedTotalVaries
  /\ chunk_size > 0 =>
       /\ TokensIn(disk) =
            Sum([i \in Procs |-> chunk_size * (Total(i) \div chunk_size)], Procs)
       /\ (pc = "done" /\ \A i \in Procs : error[i] # "OSError") =>
            TokensIn(disk) =
              PackedTotal(filenames, corpus, num_processes, chunk_size)

\* prepare has returned after two processes each dropped a leftover, and
\* the two leftovers together would have filled one more shard
C20_Witness ==
  /\ pc = "done"
  /\ chunk_size > 0
  /\ \E i, j \in Procs :
       /\ i < j
       /\ status[i] = "done" /\ status[j] = "done"
       /\ builder[i].shard_index >= 1
       /\ Total(i) % chunk_size > 0
       /\ Total(j) % chunk_size > 0
       /\ (Total(i) % chunk_size) + (Total(j) % chunk_size) >= chunk_size

(* ---------------------------- C21 --------------------------------------- *)
\* the tokens builder i has taken in and not thrown away
Held(i) == builder[i].total_tokens_written + Len(builder[i].buffer)

\* C21: a process goes through the files of its group in order and through
\* the rows of each file in order, one row per step: its cursor only moves
\* to the next row of the file or, after the last row, to the next file,
\* and the step that leaves a row has appended that row, with its
\* separator, exactly once to the process's own builder, while a step that
\* leaves no row appends nothing. So the shards and the buffer of a running
\* process hold, in order, the stream of the first rows of its group.
C21_DocumentOrder ==
  /\ [](\A i \in Procs : (status[i] = "running" /\ chunk_size > 0) =>
          /\ Len(Pushed(i)) <= Len(GroupRows(i))
          /\ ShardConcat(i, builder[i].shard_index) \o builder[i].buffer
               = Stream(SubSeq(GroupRows(i), 1, Len(Pushed(i)))))
  /\ [][ \A i \in Procs :
           /\ <<fidx'[i], ridx'[i]>> # <<fidx[i], ridx[i]>> =>
                /\ status[i] = "running"
                /\ fidx[i] <= Len(Group(i))
                /\ IF ridx[i] < Len(Texts(i))
                   THEN <<fidx'[i], ridx'[i]>> = <<fidx[i], ridx[i] + 1>>
                   ELSE <<fidx'[i], ridx'[i]>> = <<fidx[i] + 1, 0>>
                /\ status'[i] = "running"
                /\ Held(i)' = Held(i) +
                     (IF ridx[i] >= 1 THEN 1 + Len(Texts(i)[ridx[i]]) ELSE 0)
           /\ (status[i] = "running" /\ status'[i] = "running"
                /\ <<fidx'[i], ridx'[i]>> = <<fidx[i], ridx[i]>>) =>
                builder'[i] = builder[i] ]_vars

\* a process is in the second file of its group, past its first row, with
\* a shard on disk and rows of two files behind it
C21_Witness ==
  \E i \in Procs :
    /\ status[i] = "running"
    /\ fidx[i] = 2
    /\ ridx[i] >= 2
    /\ Len(Pushed(i)) >= 2
    /\ Pushed(i)[1] # Pushed(i)[Len(Pushed(i))]
    /\ builder[i].shard_index >= 1
    /\ builder[i].buffer # <<>>

(* ---------------------------- C22 --------------------------------------- *)
\* C22: a builder's total_tokens_written is always shard_index times
\* chunk_size, and as long as the builder is in use the tokens appended to
\* it so far, separators included, are total_tokens_written plus the length
\* of the buffer. Once the process has ended and the buffer is thrown away,
\* what the counter misses is the T mod chunk_size tokens that were in it.
C22_Counters ==
  \A i \in Procs : (Constructed(i) /\ chunk_size > 0) =>
    LET b == builder[i]
    IN  /\ b.total_tokens_written = b.shard_index * chunk_size
        /\ status[i] = "running" =>
             Total(i) = b.total_tokens_written + Len(b.buffer)
        /\ status[i] # "running" =>
             /\ b.buffer = <<>>
             /\ Total(i) = b.total_tokens_written + (Total(i) % chunk_size)

\* a builder in use on the second file of its group has written two shards
\* or more and holds tokens in its buffer
C22_Witness ==
  \E i \in Procs :
    /\ status[i] = "running"
    /\ fidx[i] >= 2
    /\ builder[i].shard_index >= 2
    /\ builder[i].total_tokens_written >= 2 * chunk_size
    /\ builder[i].buffer # <<>>
    /\ Total(i) > builder[i].total_tokens_written

(* ---------------------------- C23 --------------------------------------- *)
\* C23: Config.from_name(name) with no overrides succeeds for every
\* registered name: the call never ends with an exception, which is to say
\* that every preset names only fields of Config, has n_embd divisible by
\* n_head and n_head divisible by n_query_groups when that is set, and
\* sets intermediate_size when its MLP class is LLaMAMLP.
C23_EveryPresetValid == config_call.pc # "raised"

====
